---- MODULE Spec2Model ----
(***************************************************************************)
(* Model of the Smart Resume Builder (src/app.py): a Streamlit script that *)
(* is re-executed from the top on every user event and on every st.rerun.  *)
(* The session state (st.session_state) survives the runs; the Completion  *)
(* Gateway is the OpenAI chat completion call, which either returns a      *)
(* reply or raises openai.APIError.  Message texts are sequences of        *)
(* one-character strings so that lower(), strip() and the substring test   *)
(* are computed as Python computes them.  The model covers lines 1-142;    *)
(* line 145 of the file is trailing prose, not a statement of the script.  *)
(***************************************************************************)
EXTENDS Naturals, Sequences, FiniteSets

VARIABLES
    api_key,                 \* TRUE iff st.secrets holds OPENAI_API_KEY
    session_keys,            \* keys present in st.session_state
    chat_history,            \* st.session_state.chat_history
    resume_ready,            \* st.session_state.resume_ready
    user_input,              \* st.session_state.user_input
    last_assistant_message,  \* st.session_state.last_assistant_message
    user_input_widget,       \* text in the "Your answer:" box
    pc,                      \* position of the script / the session
    clicked,                 \* button whose click started the pending run
    screen,                  \* widgets on the page once the run has ended
    error,                   \* st.error element on the page
    resume_md,               \* generated document shown on the page
    request_messages,        \* messages= of the last gateway request
    requests,                \* gateway requests since the last user event
    interaction,             \* the last user event
    failed,                  \* a gateway call failed since the last user event
    ready_count              \* COLLECTING -> READY transitions of the session

vars == <<api_key, session_keys, chat_history, resume_ready, user_input,
          last_assistant_message, user_input_widget, pc, clicked, screen,
          error, resume_md, request_messages, requests, interaction, failed,
          ready_count>>

session == <<session_keys, chat_history, resume_ready, user_input,
             last_assistant_message>>

(* Bound on the transcript length: Send is offered while a whole turn fits. *)
MaxHistory == 6

---------------------------------------------------------------------------
(* Texts *)

UpperChars ==
    <<"A", "B", "C", "D", "E", "F", "G", "H", "I", "J", "K", "L", "M",
      "N", "O", "P", "Q", "R", "S", "T", "U", "V", "W", "X", "Y", "Z">>

LowerChars ==
    <<"a", "b", "c", "d", "e", "f", "g", "h", "i", "j", "k", "l", "m",
      "n", "o", "p", "q", "r", "s", "t", "u", "v", "w", "x", "y", "z">>

LowerChar(c) ==
    IF \E i \in 1..Len(UpperChars) : UpperChars[i] = c
    THEN LowerChars[CHOOSE i \in 1..Len(UpperChars) : UpperChars[i] = c]
    ELSE c

(* str.lower() *)
Lower(s) == [i \in 1..Len(s) |-> LowerChar(s[i])]

(* Python's `p in s` *)
Contains(s, p) ==
    \E i \in 1..(Len(s) + 1) :
        /\ i + Len(p) - 1 <= Len(s)
        /\ SubSeq(s, i, i + Len(p) - 1) = p

IsSpace(c) == c = " "

RECURSIVE LStrip(_)
LStrip(s) ==
    IF s # <<>> /\ IsSpace(Head(s)) THEN LStrip(Tail(s)) ELSE s

RECURSIVE RStrip(_)
RStrip(s) ==
    IF s # <<>> /\ IsSpace(s[Len(s)])
    THEN RStrip(SubSeq(s, 1, Len(s) - 1))
    ELSE s

(* The guard without its strip(). *)
StripNone(s) == s

(* str.strip() *)
Strip(s) == RStrip(LStrip(s))

MarkerResumeIsReady ==
    <<"r", "e", "s", "u", "m", "e", " ", "i", "s", " ", "r", "e", "a", "d", "y">>

MarkerGenerating ==
    <<"g", "e", "n", "e", "r", "a", "t", "i", "n", "g", " ", "y", "o", "u", "r",
      " ", "r", "e", "s", "u", "m", "e">>

MarkerEnoughInformation ==
    <<"i", " ", "h", "a", "v", "e", " ", "e", "n", "o", "u", "g", "h", " ",
      "i", "n", "f", "o", "r", "m", "a", "t", "i", "o", "n">>

(* The test without lower(): a case-sensitive match. *)
ContainsMarkerCaseSensitive(m) ==
    \/ Contains(m, MarkerResumeIsReady)
    \/ Contains(m, MarkerGenerating)
    \/ Contains(m, MarkerEnoughInformation)

(* Lines 99-101: the case-insensitive test for the key phrases. *)
ContainsMarker(m) ==
    \/ Contains(Lower(m), MarkerResumeIsReady)
    \/ Contains(Lower(m), MarkerGenerating)
    \/ Contains(Lower(m), MarkerEnoughInformation)

(* The phrase the specification names and the code does not test for. *)
PhraseResumeReady ==
    <<"r", "e", "s", "u", "m", "e", " ", "r", "e", "a", "d", "y">>

---------------------------------------------------------------------------
(* Inputs: the gateway's replies and the texts the user types. *)

ReplyQuestion == <<"N", "a", "m", "e", "?">>

ReplyResumeIsReady ==
    <<"Y", "o", "u", "r", " ", "R", "E", "S", "U", "M", "E", " ", "I", "S", " ",
      "R", "E", "A", "D", "Y", ".">>

ReplyResumeReady == PhraseResumeReady

ReplyGenerating ==
    <<"G", "e", "n", "e", "r", "a", "t", "i", "n", "g", " ", "y", "o", "u", "r",
      " ", "r", "e", "s", "u", "m", "e">>

ReplyEnoughInformation ==
    <<"I", " ", "h", "a", "v", "e", " ", "e", "n", "o", "u", "g", "h", " ",
      "i", "n", "f", "o", "r", "m", "a", "t", "i", "o", "n">>

ReplyTwoQuestions == <<"A", "?", " ", "B", "?">>

Replies ==
    {ReplyQuestion, ReplyTwoQuestions, ReplyResumeIsReady, ReplyResumeReady,
     ReplyGenerating, ReplyEnoughInformation}

(* The generated document returned for the final request. *)
ResumeDocs == {<<"#", " ", "A", "l">>}

Answers == {<<>>, <<" ">>, <<"A", "l">>, <<" ", "B", "o">>}

---------------------------------------------------------------------------
(* Messages and the session state *)

SystemPrompt == <<"s", "y", "s">>

SystemMessage == [role |-> "system", content |-> SystemPrompt]

(* A user message stored with the wrong role. *)
UserMessageAsSystem(t) == [role |-> "system", content |-> t]

UserMessage(t) == [role |-> "user", content |-> t]

AssistantMessage(m) == [role |-> "assistant", content |-> m]

(* The Send handler without its append of the user's answer. *)
AppendUserDropped(h, t) == h

(* The answer stored after strip(). *)
AppendUserStripped(h, t) == Append(h, UserMessage(Strip(t)))

(* Line 82 *)
AppendUser(h, t) == Append(h, UserMessage(t))

(* Lines 62 and 94 *)
AppendAssistant(h, m) == Append(h, AssistantMessage(m))

(* The append moved out of the try block: it also runs when the call raised. *)
TryAppendReplyAlways(h, ok, m) ==
    AppendAssistant(h, IF ok THEN m ELSE <<>>)

(* The except branch taking the last message back. *)
TryAppendReplyPopOnError(h, ok, m) ==
    IF ok THEN AppendAssistant(h, m) ELSE SubSeq(h, 1, Len(h) - 1)

(* Lines 55-67 and 85-105: the reply is appended only when the call returned. *)
TryAppendReply(h, ok, m) == IF ok THEN AppendAssistant(h, m) ELSE h

(* The flag set on every reply. *)
ReadyAfterReplyAlways(r, m) == TRUE

(* Lines 99-102 *)
ReadyAfterReply(r, m) == IF ContainsMarker(m) THEN TRUE ELSE r

(* The guard without its length test. *)
NeedsInitialPromptNoLength(h, lam) == lam = <<>>

(* Line 53 *)
NeedsInitialPrompt(h, lam) == Len(h) = 1 /\ lam = <<>>

(* The chat loop entered whatever the flag says. *)
ChatModeAlways(r) == TRUE

(* Line 43 *)
ChatMode(r) == ~r

AllKeys == {"chat_history", "resume_ready", "user_input", "last_assistant_message"}

(* The key list without the transcript. *)
StartOverKeysWithoutHistory ==
    {"resume_ready", "user_input", "last_assistant_message"}

(* Line 139 *)
StartOverKeys ==
    {"chat_history", "resume_ready", "user_input", "last_assistant_message"}

(* Line 116 *)
FinalResumePrompt == <<"g", "e", "n", "e", "r", "a", "t", "e">>

(* Line 119: the request's messages, a new list. *)
FinalRequestMessages(h) == h \o <<UserMessage(FinalResumePrompt)>>

(* The instruction appended to the session's list itself. *)
HistoryAfterFinalRequestInPlace(h) == FinalRequestMessages(h)

(* Line 119: `+` leaves the session's list as it was. *)
HistoryAfterFinalRequest(h) == h

(* A transcript created with a canned first question. *)
SessionHistoryWithGreeting ==
    IF "chat_history" \in session_keys
    THEN chat_history
    ELSE <<SystemMessage, AssistantMessage(ReplyQuestion)>>

(* Lines 22-34: each key gets its default only when it is absent. *)
SessionHistory ==
    IF "chat_history" \in session_keys THEN chat_history ELSE <<SystemMessage>>

SessionReady ==
    IF "resume_ready" \in session_keys THEN resume_ready ELSE FALSE

SessionUserInput ==
    IF "user_input" \in session_keys THEN user_input ELSE <<>>

SessionLastAssistant ==
    IF "last_assistant_message" \in session_keys
    THEN last_assistant_message ELSE <<>>

SessionReadyCount == IF "resume_ready" \in session_keys THEN ready_count ELSE 0

LastRole(h) == h[Len(h)].role

---------------------------------------------------------------------------
Init ==
    /\ api_key \in BOOLEAN
    /\ session_keys = {}
    /\ chat_history = <<>>
    /\ resume_ready = FALSE
    /\ user_input = <<>>
    /\ last_assistant_message = <<>>
    /\ user_input_widget = <<>>
    /\ pc = "run"
    /\ clicked = "none"
    /\ screen = "blank"
    /\ error = "none"
    /\ resume_md = <<>>
    /\ request_messages = <<>>
    /\ requests = 0
    /\ interaction = "load"
    /\ failed = FALSE
    /\ ready_count = 0

---------------------------------------------------------------------------
(* User events.  Each is taken while the script is not running and starts *)
(* a run of the script.                                                    *)

UserEvent(button, kind) ==
    /\ pc = "idle"
    /\ pc' = "run"
    /\ clicked' = button
    /\ interaction' = kind
    /\ requests' = 0
    /\ failed' = FALSE
    /\ UNCHANGED <<api_key, session, screen, error, resume_md,
                   request_messages, ready_count>>

(* Line 72: the user edits the answer box. *)
TypeAnswer(t) ==
    /\ screen = "chat"
    /\ t # user_input_widget
    /\ user_input_widget' = t
    /\ UserEvent("none", "type")

(* Line 75: the user presses Send. *)
ClickSend ==
    /\ screen = "chat"
    /\ Len(chat_history) + 2 <= MaxHistory
    /\ UNCHANGED user_input_widget
    /\ UserEvent("send", "send")

(* Line 137: the user presses Start Over. *)
ClickStartOver ==
    /\ screen = "resume"
    /\ UNCHANGED user_input_widget
    /\ UserEvent("start_over", "start_over")

(* The user asks the page to run again without touching a widget. *)
PageRerun ==
    /\ UNCHANGED user_input_widget
    /\ UserEvent("none", "rerun")

---------------------------------------------------------------------------
(* One run of the script, from line 1 to its first gateway call or its end. *)

(* The session state initialised before the credential is looked up. *)
RunNoKeySessionFirst ==
    /\ pc = "run"
    /\ ~api_key
    /\ session_keys' = AllKeys
    /\ chat_history' = SessionHistory
    /\ resume_ready' = SessionReady
    /\ user_input' = SessionUserInput
    /\ last_assistant_message' = SessionLastAssistant
    /\ error' = "config"
    /\ screen' = "stopped"
    /\ pc' = "idle"
    /\ clicked' = "none"
    /\ UNCHANGED <<api_key, user_input_widget, resume_md, request_messages,
                   requests, interaction, failed, ready_count>>

(* Lines 9-13: no credential; st.error and st.stop. *)
RunNoKey ==
    /\ pc = "run"
    /\ ~api_key
    /\ error' = "config"
    /\ screen' = "stopped"
    /\ pc' = "idle"
    /\ clicked' = "none"
    /\ UNCHANGED <<api_key, session, user_input_widget, resume_md,
                   request_messages, requests, interaction, failed,
                   ready_count>>

(* Lines 22-34, 43, 53-60: the first question is requested. *)
RunInitialPrompt ==
    /\ pc = "run"
    /\ api_key
    /\ ChatMode(SessionReady)
    /\ NeedsInitialPrompt(SessionHistory, SessionLastAssistant)
    /\ session_keys' = AllKeys
    /\ chat_history' = SessionHistory
    /\ resume_ready' = SessionReady
    /\ user_input' = SessionUserInput
    /\ last_assistant_message' = SessionLastAssistant
    /\ ready_count' = SessionReadyCount
    /\ error' = "none"
    /\ requests' = requests + 1
    /\ pc' = "initial_call"
    /\ resume_md' = <<>>
    /\ request_messages' = chat_history'
    /\ UNCHANGED <<api_key, user_input_widget, clicked, screen, interaction,
                   failed>>

(* Lines 22-34, 43, 72-90: Send with an answer; the user turn is requested. *)
RunSend ==
    /\ pc = "run"
    /\ api_key
    /\ ChatMode(SessionReady)
    /\ ~NeedsInitialPrompt(SessionHistory, SessionLastAssistant)
    /\ clicked = "send"
    /\ Strip(user_input_widget) # <<>>
    /\ session_keys' = AllKeys
    /\ resume_ready' = SessionReady
    /\ user_input' = <<>>
    /\ last_assistant_message' = <<>>
    /\ chat_history' = AppendUser(SessionHistory, user_input_widget)
    /\ ready_count' = SessionReadyCount
    /\ error' = "none"
    /\ requests' = requests + 1
    /\ pc' = "turn_call"
    /\ resume_md' = <<>>
    /\ request_messages' = chat_history'
    /\ UNCHANGED <<api_key, user_input_widget, clicked, screen, interaction,
                   failed>>

(* Lines 75-76: Send with an empty or blank answer; the run ends. *)
RunSendEmpty ==
    /\ pc = "run"
    /\ api_key
    /\ ChatMode(SessionReady)
    /\ ~NeedsInitialPrompt(SessionHistory, SessionLastAssistant)
    /\ clicked = "send"
    /\ Strip(user_input_widget) = <<>>
    /\ session_keys' = AllKeys
    /\ chat_history' = SessionHistory
    /\ resume_ready' = SessionReady
    /\ user_input' = SessionUserInput
    /\ last_assistant_message' = SessionLastAssistant
    /\ ready_count' = SessionReadyCount
    /\ error' = "none"
    /\ screen' = "chat"
    /\ clicked' = "none"
    /\ pc' = "idle"
    /\ resume_md' = <<>>
    /\ UNCHANGED <<api_key, user_input_widget, request_messages, requests,
                   interaction, failed>>

(* Lines 43-75: the chat is shown and Send was not pressed; the run ends. *)
RunAwaitInput ==
    /\ pc = "run"
    /\ api_key
    /\ ChatMode(SessionReady)
    /\ ~NeedsInitialPrompt(SessionHistory, SessionLastAssistant)
    /\ clicked # "send"
    /\ session_keys' = AllKeys
    /\ chat_history' = SessionHistory
    /\ resume_ready' = SessionReady
    /\ user_input' = SessionUserInput
    /\ last_assistant_message' = SessionLastAssistant
    /\ ready_count' = SessionReadyCount
    /\ error' = "none"
    /\ screen' = "chat"
    /\ clicked' = "none"
    /\ pc' = "idle"
    /\ resume_md' = <<>>
    /\ UNCHANGED <<api_key, user_input_widget, request_messages, requests,
                   interaction, failed>>

(* Lines 111-120: the final document is requested. *)
RunReady ==
    /\ pc = "run"
    /\ api_key
    /\ ~ChatMode(SessionReady)
    /\ session_keys' = AllKeys
    /\ chat_history' = HistoryAfterFinalRequest(SessionHistory)
    /\ resume_ready' = SessionReady
    /\ user_input' = SessionUserInput
    /\ last_assistant_message' = SessionLastAssistant
    /\ ready_count' = SessionReadyCount
    /\ error' = "none"
    /\ requests' = requests + 1
    /\ pc' = "final_call"
    /\ resume_md' = <<>>
    /\ request_messages' = FinalRequestMessages(SessionHistory)
    /\ UNCHANGED <<api_key, user_input_widget, clicked, screen, interaction,
                   failed>>

---------------------------------------------------------------------------
(* The gateway call returns or raises, and the run goes on to its end. *)

(* Lines 61-64: the first question is appended; st.rerun. *)
InitialReplyOk(m) ==
    /\ pc = "initial_call"
    /\ chat_history' = TryAppendReply(chat_history, TRUE, m)
    /\ last_assistant_message' = m
    /\ clicked' = "none"
    /\ pc' = "run"
    /\ UNCHANGED <<api_key, session_keys, resume_ready, user_input,
                   user_input_widget, screen, error, resume_md,
                   request_messages, requests, interaction, failed,
                   ready_count>>

(* Lines 65-67: st.error and st.stop. *)
InitialReplyError ==
    /\ pc = "initial_call"
    /\ chat_history' = TryAppendReply(chat_history, FALSE, <<>>)
    /\ error' = "api"
    /\ failed' = TRUE
    /\ screen' = "stopped"
    /\ clicked' = "none"
    /\ pc' = "idle"
    /\ UNCHANGED <<api_key, session_keys, resume_ready, user_input,
                   last_assistant_message, user_input_widget, resume_md,
                   request_messages, requests, interaction, ready_count>>

(* Lines 91-102, 107: the reply is appended and tested; st.rerun. *)
TurnReplyOk(m) ==
    /\ pc = "turn_call"
    /\ chat_history' = TryAppendReply(chat_history, TRUE, m)
    /\ last_assistant_message' = m
    /\ resume_ready' = ReadyAfterReply(resume_ready, m)
    /\ ready_count' = IF ~resume_ready /\ resume_ready'
                      THEN ready_count + 1 ELSE ready_count
    /\ clicked' = "none"
    /\ pc' = "run"
    /\ UNCHANGED <<api_key, session_keys, user_input, user_input_widget,
                   screen, error, resume_md, request_messages, requests,
                   interaction, failed>>

(* Lines 104-107: st.error, then st.rerun. *)
TurnReplyError ==
    /\ pc = "turn_call"
    /\ chat_history' = TryAppendReply(chat_history, FALSE, <<>>)
    /\ error' = "api"
    /\ failed' = TRUE
    /\ clicked' = "none"
    /\ pc' = "run"
    /\ UNCHANGED <<api_key, session_keys, resume_ready, user_input,
                   last_assistant_message, user_input_widget, screen,
                   resume_md, request_messages, requests, interaction,
                   ready_count>>

(* Lines 121-131: the document and its download button are shown. *)
FinalReplyOk(doc) ==
    /\ pc = "final_call"
    /\ resume_md' = doc
    /\ pc' = "after_final"
    /\ UNCHANGED <<api_key, session, user_input_widget, clicked, screen,
                   error, request_messages, requests, interaction, failed,
                   ready_count>>

(* Lines 133-134: st.error. *)
FinalReplyError ==
    /\ pc = "final_call"
    /\ error' = "api"
    /\ failed' = TRUE
    /\ pc' = "after_final"
    /\ UNCHANGED <<api_key, session, user_input_widget, clicked, screen,
                   resume_md, request_messages, requests, interaction,
                   ready_count>>

(* Lines 137-142: Start Over was pressed; the keys are deleted; st.rerun. *)
StartOver ==
    /\ pc = "after_final"
    /\ clicked = "start_over"
    /\ session_keys' = session_keys \ StartOverKeys
    /\ chat_history' =
          IF "chat_history" \in session_keys' THEN chat_history ELSE <<>>
    /\ resume_ready' =
          IF "resume_ready" \in session_keys' THEN resume_ready ELSE FALSE
    /\ user_input' =
          IF "user_input" \in session_keys' THEN user_input ELSE <<>>
    /\ last_assistant_message' =
          IF "last_assistant_message" \in session_keys'
          THEN last_assistant_message ELSE <<>>
    /\ ready_count' =
          IF "resume_ready" \in session_keys' THEN ready_count ELSE 0
    /\ clicked' = "none"
    /\ pc' = "run"
    /\ UNCHANGED <<api_key, user_input_widget, screen, error, resume_md,
                   request_messages, requests, interaction, failed>>

(* Line 137: Start Over was not pressed; the run ends on the resume page. *)
ShowResume ==
    /\ pc = "after_final"
    /\ clicked # "start_over"
    /\ screen' = "resume"
    /\ user_input_widget' = SessionUserInput
    /\ clicked' = "none"
    /\ pc' = "idle"
    /\ UNCHANGED <<api_key, session, error, resume_md, request_messages,
                   requests, interaction, failed, ready_count>>

Next ==
    \/ \E t \in Answers : TypeAnswer(t)
    \/ ClickSend
    \/ ClickStartOver
    \/ PageRerun
    \/ RunNoKey
    \/ RunInitialPrompt
    \/ RunSend
    \/ RunSendEmpty
    \/ RunAwaitInput
    \/ RunReady
    \/ \E m \in Replies : InitialReplyOk(m)
    \/ InitialReplyError
    \/ \E m \in Replies : TurnReplyOk(m)
    \/ TurnReplyError
    \/ \E doc \in ResumeDocs : FinalReplyOk(doc)
    \/ FinalReplyError
    \/ StartOver
    \/ ShowResume

Spec == Init /\ [][Next]_vars

TypeOK ==
    /\ api_key \in BOOLEAN
    /\ session_keys \in {{}, AllKeys}
    /\ resume_ready \in BOOLEAN
    /\ pc \in {"run", "idle", "initial_call", "turn_call", "final_call",
               "after_final"}
    /\ clicked \in {"none", "send", "start_over"}
    /\ screen \in {"blank", "chat", "stopped", "resume"}
    /\ error \in {"none", "config", "api"}
    /\ interaction \in {"load", "type", "send", "start_over", "rerun"}
    /\ failed \in BOOLEAN
    /\ user_input = <<>>
    /\ Len(chat_history) <= MaxHistory
    /\ requests \in 0..2
    /\ ready_count \in 0..1

---------------------------------------------------------------------------
(* Vocabulary of the properties *)

HasTranscript == "chat_history" \in session_keys

Collecting == "resume_ready" \in session_keys /\ ~resume_ready

Ready == "resume_ready" \in session_keys /\ resume_ready

LastContent(h) == h[Len(h)].content

GatewayCalls == {"initial_call", "turn_call", "final_call"}

(* The step is a gateway call raising openai.APIError. *)
CallFails == pc \in GatewayCalls /\ error = "none" /\ error' = "api"

(* The step appends the reply to a user's answer. *)
TurnReplyAppended ==
    /\ pc = "turn_call"
    /\ Len(chat_history') = Len(chat_history) + 1
    /\ LastRole(chat_history') = "assistant"

---------------------------------------------------------------------------
(* C1: the transcript never holds two assistant messages in a row, and a  *)
(* gateway request that will append an assistant message is issued on a   *)
(* transcript that ends in the system message or a user message.          *)
C1_NoTwoAssistantsInARow ==
    /\ \A i \in 1..Len(chat_history) :
          i < Len(chat_history) =>
              ~(/\ chat_history[i].role = "assistant"
                /\ chat_history[i + 1].role = "assistant")
    /\ pc \in {"initial_call", "turn_call"} =>
          LastRole(chat_history) \in {"system", "user"}

C1_Witness ==
    /\ pc = "idle"
    /\ Len(chat_history) >= 5
    /\ LastRole(chat_history) = "assistant"
    /\ \E i \in 1..Len(chat_history) :
          /\ i < Len(chat_history)
          /\ chat_history[i].role = "user"
          /\ chat_history[i + 1].role = "user"

(* C2: no COLLECTING state has an assistant message in the transcript     *)
(* that contains a completion marker (every appended reply, the first     *)
(* one included, is inspected and moves the session to READY).            *)
C2_NoMarkerWhileCollecting ==
    Collecting =>
        \A i \in 1..Len(chat_history) :
            chat_history[i].role = "assistant" =>
                ~(\/ Contains(Lower(chat_history[i].content), MarkerResumeIsReady)
                  \/ Contains(Lower(chat_history[i].content), MarkerGenerating)
                  \/ Contains(Lower(chat_history[i].content),
                              MarkerEnoughInformation))

C4_ReadyIsTerminal ==
    /\ [][Ready =>
            \/ (Ready' /\ chat_history' = chat_history)
            \/ (/\ pc = "after_final"
                /\ clicked = "start_over"
                /\ session_keys' = {})]_vars
    /\ [](Ready => pc # "turn_call" /\ (pc = "idle" => screen = "resume"))

C4_Witness ==
    /\ Ready
    /\ pc = "idle"
    /\ interaction = "rerun"
    /\ error = "api"

(* C5: a gateway call that fails, at any of the three call sites, appends *)
(* nothing and leaves the transcript and the dialogue state as they were  *)
(* when the call was issued.                                              *)
C5_FailureLeavesStateUnchanged ==
    [][CallFails =>
         /\ chat_history' = chat_history
         /\ resume_ready' = resume_ready
         /\ session_keys' = session_keys]_vars

C5_Witness ==
    /\ error = "api"
    /\ pc = "run"
    /\ Collecting
    /\ LastRole(chat_history) = "user"

(* C6: once a reply has been appended and control is back with the user,  *)
(* no user message stands in the transcript twice in a row (a retry after *)
(* a failed turn does not append the same answer again).                  *)
C6_RetryKeepsOneUserMessage ==
    (HasTranscript /\ pc = "idle" /\ LastRole(chat_history) = "assistant") =>
        \A i \in 1..Len(chat_history) :
            i < Len(chat_history) =>
                ~(/\ chat_history[i].role = "user"
                  /\ chat_history[i + 1].role = "user"
                  /\ chat_history[i].content = chat_history[i + 1].content)

(* C7: while COLLECTING the controller is never idle awaiting the user's  *)
(* input with a transcript that ends in a system or a user message.       *)
C7_NeverIdleOnAssistantsTurn ==
    (Collecting /\ pc = "idle" /\ screen = "chat") =>
        LastRole(chat_history) = "assistant"

(* C8: when control returns to the user after a gateway call has failed,  *)
(* the error report of that failure is on the page.                       *)
C8_FailureStaysVisible ==
    (pc = "idle" /\ failed) => error = "api"

(* C9 as stated: between Send and the return of control to the user at    *)
(* most one gateway request is made.                                      *)
C9_OneRequestPerSubmission ==
    (pc = "idle" /\ interaction = "send") => requests <= 1

(* C9 as amended: a submission causes at most one gateway request, except *)
(* the submission whose reply switches the session to READY, which causes *)
(* two: the turn's request and the final-document request.                *)
C9_OneRequestUnlessReady ==
    interaction = "send" => requests <= (IF Ready THEN 2 ELSE 1)

C9_Witness ==
    /\ pc = "idle"
    /\ interaction = "send"
    /\ Ready
    /\ requests = 2

(* C10: a transcript that exists is non-empty, begins with the system     *)
(* message and holds no system message at any later position.             *)
C10_SystemMessageFirstOnly ==
    HasTranscript =>
        /\ Len(chat_history) >= 1
        /\ chat_history[1].role = "system"
        /\ \A i \in 2..Len(chat_history) : chat_history[i].role # "system"

C10_Witness ==
    /\ HasTranscript
    /\ Len(chat_history) >= 4
    /\ \E i \in 2..Len(chat_history) : chat_history[i].role = "user"

---------------------------------------------------------------------------
IsPrefix(a, b) == Len(a) <= Len(b) /\ SubSeq(b, 1, Len(a)) = a

(* The step is the Start Over handler deleting the session keys. *)
ResetStep == pc = "after_final" /\ clicked = "start_over"

(* The state right after the reset, before the session is reinitialised. *)
JustReset ==
    /\ pc = "run"
    /\ interaction = "start_over"
    /\ clicked = "none"
    /\ requests = 1

IsBlank(t) == \A i \in 1..Len(t) : t[i] = " "

CountQuestionMarks(t) == Cardinality({i \in 1..Len(t) : t[i] = "?"})

(* C11: the transcript is append-only between resets: on every step       *)
(* other than the session reset the transcript before the step is a       *)
(* prefix of the transcript after it.                                     *)
C11_AppendOnly ==
    [][ResetStep \/ IsPrefix(chat_history, chat_history')]_vars

C11_Witness ==
    /\ HasTranscript
    /\ pc = "after_final"
    /\ Len(chat_history) >= 5

(* C12 as stated: submitting a non-empty answer while COLLECTING appends  *)
(* exactly one user message with that text, so the transcript grows by 1. *)
C12_NonEmptyAnswerAppended ==
    [][(/\ pc = "run"
        /\ clicked = "send"
        /\ Collecting
        /\ user_input_widget # <<>>)
       => chat_history' =
              Append(chat_history,
                     [role |-> "user", content |-> user_input_widget])]_vars

(* C12 as amended: submitting an answer that is not blank (it holds a     *)
(* character other than white space) while COLLECTING appends exactly one *)
(* user message with that text, unstripped, so the transcript grows by 1  *)
(* before the reply is requested.                                         *)
C12_NonBlankAnswerAppended ==
    [][(/\ pc = "run"
        /\ clicked = "send"
        /\ Collecting
        /\ ~IsBlank(user_input_widget))
       => /\ chat_history' =
                Append(chat_history,
                       [role |-> "user", content |-> user_input_widget])
          /\ pc' = "turn_call"]_vars

C12_Witness ==
    /\ pc = "turn_call"
    /\ LastRole(chat_history) = "user"
    /\ LastContent(chat_history) = <<" ", "B", "o">>

(* C13: the reset of a READY session deletes the session state, and the   *)
(* run that follows creates a transcript holding only the system prompt,  *)
(* with the state COLLECTING, and requests the first question again.      *)
C13_ResetYieldsFreshTranscript ==
    /\ [][(ResetStep /\ Ready) => (session_keys' = {} /\ pc' = "run")]_vars
    /\ [][JustReset =>
            /\ session_keys' = AllKeys
            /\ chat_history' =
                   <<[role |-> "system", content |-> SystemPrompt]>>
            /\ ~resume_ready'
            /\ pc' = "initial_call"]_vars

C13_Witness ==
    /\ pc = "initial_call"
    /\ interaction = "start_over"
    /\ Len(chat_history) = 1

(* C14: in every state of a configured session in which control is with   *)
(* the user, COLLECTING or READY, the reset (Start Over) is offered.      *)
C14_ResetAlwaysAvailable ==
    (api_key /\ pc = "idle") => screen = "resume"

(* C15: every assistant message of the transcript is in enforced form: it *)
(* holds at most one '?', and when it holds one it ends with it.          *)
C15_AssistantMessagesEnforced ==
    \A i \in 1..Len(chat_history) :
        chat_history[i].role = "assistant" =>
            /\ CountQuestionMarks(chat_history[i].content) <= 1
            /\ CountQuestionMarks(chat_history[i].content) = 1 =>
                   chat_history[i].content[
                       Len(chat_history[i].content)] = "?"

(* C16: without the credential no session state is created and no        *)
(* gateway request is issued.                                             *)
C16_NoCredentialNoSession ==
    ~api_key =>
        /\ session_keys = {}
        /\ chat_history = <<>>
        /\ request_messages = <<>>
        /\ requests = 0
        /\ pc \in {"run", "idle"}

C16_Witness ==
    /\ ~api_key
    /\ pc = "idle"
    /\ error = "config"
    /\ interaction = "rerun"

(* C17: the first run of a configured session creates a transcript of     *)
(* length 1 whose only message has role system, with the state            *)
(* COLLECTING, and that is the session while the first question is        *)
(* awaited.                                                               *)
C17_FreshSession ==
    /\ [][(api_key /\ session_keys = {} /\ pc = "run") =>
            /\ session_keys' = AllKeys
            /\ Len(chat_history') = 1
            /\ chat_history'[1].role = "system"
            /\ ~resume_ready']_vars
    /\ [](pc = "initial_call" =>
            /\ Len(chat_history) = 1
            /\ chat_history[1].role = "system"
            /\ Collecting)

C17_Witness ==
    /\ pc = "initial_call"
    /\ interaction = "load"
    /\ Collecting
    /\ Len(chat_history) = 1

(* C18: in READY the transcript ends in an assistant message that holds   *)
(* one of the three marker phrases, and READY is entered only by the step *)
(* that appends the reply to a user's answer.                             *)
C18_ReadyEndsInMarkerReply ==
    /\ [](Ready =>
            /\ LastRole(chat_history) = "assistant"
            /\ \/ Contains(Lower(LastContent(chat_history)), MarkerResumeIsReady)
               \/ Contains(Lower(LastContent(chat_history)), MarkerGenerating)
               \/ Contains(Lower(LastContent(chat_history)),
                           MarkerEnoughInformation))
    /\ [][(~resume_ready /\ resume_ready') => TurnReplyAppended]_vars

C18_Witness ==
    /\ Ready
    /\ pc = "idle"
    /\ LastContent(chat_history) = ReplyEnoughInformation

(* C19: the final-document request leaves the transcript and the ready    *)
(* flag as they were, whether it succeeds or fails: the request carries   *)
(* the transcript followed by the instruction, neither the instruction    *)
(* nor the document is in the transcript, and the reset stays offered     *)
(* after a failure.                                                       *)
C19_FinalRequestLeavesSession ==
    /\ [][(Ready /\ pc \in {"run", "final_call"}) =>
            /\ chat_history' = chat_history
            /\ resume_ready' = resume_ready]_vars
    /\ [](pc = "final_call" =>
            request_messages =
                chat_history \o
                    <<[role |-> "user", content |-> FinalResumePrompt]>>)
    /\ [](\A i \in 1..Len(chat_history) :
            /\ chat_history[i].content # FinalResumePrompt
            /\ chat_history[i].content \notin ResumeDocs)
    /\ [](Ready /\ pc = "idle" => screen = "resume")

C19_Witness ==
    /\ Ready
    /\ pc = "idle"
    /\ interaction = "rerun"
    /\ resume_md \in ResumeDocs

(* C20: Send with an empty or blank answer while COLLECTING appends       *)
(* nothing, issues no gateway request and leaves the dialogue state and   *)
(* the last assistant message as they were.                               *)
C20_BlankSendChangesNothing ==
    [][(/\ pc = "run"
        /\ clicked = "send"
        /\ Collecting
        /\ IsBlank(user_input_widget))
       => /\ chat_history' = chat_history
          /\ resume_ready' = resume_ready
          /\ last_assistant_message' = last_assistant_message
          /\ requests' = requests
          /\ request_messages' = request_messages
          /\ pc' = "idle"]_vars

C20_Witness ==
    /\ Collecting
    /\ pc = "idle"
    /\ interaction = "send"
    /\ requests = 0
    /\ user_input_widget = <<" ">>

====
